---- MODULE Spec2Model ----
(***************************************************************************)
(* VibeChat backend (src/main.py): users, chats and messages kept in a     *)
(* document store, served by request handlers that run concurrently.       *)
(* Documents are mappings from field names to tagged values; the three     *)
(* collections are sequences in insertion order.                           *)
(***************************************************************************)
EXTENDS Integers, Sequences, FiniteSets, TLC

\* ---------------------------------------------------------------- bounds
\* Number of hex digits of an identifier's string form (24 in the bson library).
OidLen == 2
\* Number of request slots that can run send_message concurrently.
NProcs == 2
MaxUsers == 1
MaxChats == 2
MaxMsgs == 2
\* The last reading of the wall clock the model lets time reach.
MaxClock == 1

Procs == 1..NProcs

\* ---------------------------------------------------------------- values
\* Python values, tagged with their type so that isinstance can be modelled.
Str(s) == [t |-> "str", v |-> s]
Bool(b) == [t |-> "bool", v |-> b]
List(l) == [t |-> "list", v |-> l]
DateTime(n) == [t |-> "datetime", v |-> n]
NativeId(nibbles) == [t |-> "ObjectId", v |-> nibbles]
None == [t |-> "None", v |-> <<>>]
InvalidId == [t |-> "InvalidId", v |-> <<>>]

\* ------------------------------------------------- bson.ObjectId <-> str
HexLower == <<"0", "1", "2", "3", "4", "5", "6", "7", "8", "9", "a", "b", "c", "d", "e", "f">>
HexUpper == <<"0", "1", "2", "3", "4", "5", "6", "7", "8", "9", "A", "B", "C", "D", "E", "F">>

IsHex(c) == \E i \in DOMAIN HexLower : HexLower[i] = c \/ HexUpper[i] = c

HexVal(c) == (CHOOSE i \in DOMAIN HexLower : HexLower[i] = c \/ HexUpper[i] = c) - 1

\* str.lower() on one character (letters outside A-F do not occur in the model's
\* upper-case inputs).
LowerChar(c) ==
    IF \E i \in DOMAIN HexUpper : HexUpper[i] = c
    THEN HexLower[CHOOSE i \in DOMAIN HexUpper : HexUpper[i] = c]
    ELSE c

\* ObjectId(s): parses a string of OidLen hex digits of either case; anything
\* else raises InvalidId.
ObjectId(s) ==
    IF Len(s) = OidLen /\ \A i \in DOMAIN s : IsHex(s[i])
    THEN NativeId([i \in 1..OidLen |-> HexVal(s[i])])
    ELSE InvalidId

\* str(ObjectId): lower-case hex digits.
StrOfOid(o) == [i \in DOMAIN o.v |-> HexLower[o.v[i] + 1]]

oid_str(value) ==
    IF value.t = "ObjectId" THEN Str(StrOfOid(value)) ELSE value

\* "if not doc": None or an empty mapping.
IsFalsy(doc) == doc = None \/ DOMAIN doc = {}

\* serialize without the conversion of the identifier to its string form.
serialize_raw_id(doc) ==
    IF IsFalsy(doc) THEN doc
    ELSE [k \in ((DOMAIN doc) \ {"_id"}) \cup (IF "_id" \in DOMAIN doc THEN {"id"} ELSE {}) |->
            IF k = "id" /\ "_id" \in DOMAIN doc THEN doc["_id"] ELSE doc[k]]

\* serialize(doc): "_id" becomes "id" in string form, any other ObjectId value is
\* stringified, everything else passes through.  A falsy doc is returned as is.
serialize(doc) ==
    IF IsFalsy(doc) THEN doc
    ELSE [k \in ((DOMAIN doc) \ {"_id"}) \cup (IF "_id" \in DOMAIN doc THEN {"id"} ELSE {}) |->
            IF k = "id" /\ "_id" \in DOMAIN doc THEN oid_str(doc["_id"])
            ELSE IF doc[k].t = "ObjectId" THEN oid_str(doc[k])
            ELSE doc[k]]

\* ------------------------------------------------------------ the inputs
Ada == <<"A", "d", "a">>
Bea == <<"B", "e", "a">>
Eve == <<"e", "v", "e">>
DefaultStatus == <<"Hey there! I am using VibeChat">>
Hi == <<"h", "i">>
Text == <<"text">>

\* CreateUser, CreateChat, CreateMessage after validation, as model_dump() gives them.
CreateUser(name) ==
    [name |-> Str(name), avatar |-> None, status |-> Str(DefaultStatus)]

CreateChat(participants, is_group) ==
    [participants |-> List(participants), title |-> None, is_group |-> Bool(is_group)]

CreateMessage(chat_id, sender_id) ==
    [chat_id |-> Str(chat_id), sender_id |-> Str(sender_id),
     content |-> Str(Hi), type |-> Str(Text)]

UserPayloads == {CreateUser(Ada)}

ChatPayloads ==
    {CreateChat(<<Ada>>, FALSE), CreateChat(<<Ada>>, TRUE), CreateChat(<<Ada, Bea>>, FALSE)}

\* ----------------------------------------------------------------- state
VARIABLES
    db,        \* the store: collection name -> documents in insertion order
    clock,     \* the wall clock
    pc,        \* per request slot: where its send_message call stands
    local,     \* per request slot: send_message's payload, chat and msg_id
    resp,      \* the latest HTTP response sent
    returned,  \* history: ids of the messages whose send_message returned 200
    updLog,    \* history: ids of the messages whose created_at was written to a chat, in order
    failed     \* history: ids of the messages whose chat update raised

vars == <<db, clock, pc, local, resp, returned, updLog, failed>>

\* The identifier the store hands out next in a collection: the first digits
\* tell the collection, the last counts its documents, so no two documents
\* of the store share an identifier.
Prefix(collection_name) ==
    CASE collection_name = "user" -> Len(HexLower) - 3
      [] collection_name = "chat" -> Len(HexLower) - 2
      [] collection_name = "message" -> Len(HexLower) - 1

NewOid(collection_name) ==
    NativeId([i \in 1..OidLen |->
        IF i = OidLen THEN Len(db[collection_name]) ELSE Prefix(collection_name)])

\* A well-formed identifier the store never hands out.
UnusedOid == NativeId([i \in 1..OidLen |-> 0])

OidsLeft(collection_name) == Len(db[collection_name]) < Len(HexLower)

\* ---------------------------------------------------- persistence gateway
\* "$regex": q, "$options": "i" for a literal pattern: a case-insensitive
\* substring search.
Lower(s) == [i \in DOMAIN s |-> LowerChar(s[i])]

Contains(s, q) ==
    \E i \in 0..(Len(s) - Len(q)) : SubSeq(Lower(s), i + 1, i + Len(q)) = Lower(q)

\* create_document(collection_name, data): stamps the document, inserts it and
\* returns the new identifier's string form.
NewDocument(collection_name, data) ==
    data @@ [_id |-> NewOid(collection_name),
             created_at |-> DateTime(clock), updated_at |-> DateTime(clock)]

create_document(collection_name, data) ==
    [db EXCEPT ![collection_name] = Append(@, NewDocument(collection_name, data))]

created_id(collection_name) == StrOfOid(NewOid(collection_name))

\* get_documents(collection_name, filter_dict): the matching documents, in
\* the store's order.
\* A filter {key: value} matches a document whose field equals value or, for a
\* list field, contains it; {key: {"$regex": value, "$options": "i"}} matches
\* on a case-insensitive search; {} matches every document.
NoFilter == [key |-> "", op |-> "all", value |-> <<>>]
Equals(key, value) == [key |-> key, op |-> "eq", value |-> value]
Regex(key, value) == [key |-> key, op |-> "regex", value |-> value]

Matches(doc, filter_dict) ==
    CASE filter_dict.op = "all" -> TRUE
      [] filter_dict.op = "eq" ->
            IF doc[filter_dict.key].t = "list"
            THEN \E i \in DOMAIN doc[filter_dict.key].v :
                    doc[filter_dict.key].v[i] = filter_dict.value
            ELSE doc[filter_dict.key].v = filter_dict.value
      [] filter_dict.op = "regex" -> Contains(doc[filter_dict.key].v, filter_dict.value)

get_documents(collection, filter_dict) ==
    SelectSeq(collection, LAMBDA d : Matches(d, filter_dict))

\* collection.find_one({"_id": oid}): the document, or None.
find_one(collection, oid) ==
    IF \E i \in DOMAIN collection : collection[i]["_id"] = oid
    THEN collection[CHOOSE i \in DOMAIN collection : collection[i]["_id"] = oid]
    ELSE None

\* update_one with a filter that matches every document.
update_every(collection, oid, field, value) ==
    [i \in DOMAIN collection |-> [collection[i] EXCEPT ![field] = value]]

\* collection.update_one({"_id": oid}, {"$set": {field: value}}).
update_one(collection, oid, field, value) ==
    [i \in DOMAIN collection |->
        IF collection[i]["_id"] = oid
        THEN [collection[i] EXCEPT ![field] = value]
        ELSE collection[i]]

\* ------------------------------------------------------------ sorted(...)
\* Python's sorted(docs, key=lambda d: d.get(key), reverse=reverse): stable.
ComesAfter(a, b, key, reverse) ==
    IF reverse THEN a[key].v < b[key].v ELSE a[key].v > b[key].v

InsertStable(acc, d, key, reverse) ==
    IF \E i \in DOMAIN acc : ComesAfter(acc[i], d, key, reverse)
    THEN LET i == CHOOSE j \in DOMAIN acc :
                    /\ ComesAfter(acc[j], d, key, reverse)
                    /\ \A k \in 1..(j - 1) : ~ComesAfter(acc[k], d, key, reverse)
         IN SubSeq(acc, 1, i - 1) \o <<d>> \o SubSeq(acc, i, Len(acc))
    ELSE Append(acc, d)

RECURSIVE sorted(_, _, _)
sorted(docs, key, reverse) ==
    IF docs = <<>> THEN <<>>
    ELSE InsertStable(sorted(SubSeq(docs, 1, Len(docs) - 1), key, reverse),
                      docs[Len(docs)], key, reverse)

\* [serialize(d) for d in docs]
SerializeAll(docs) == [i \in DOMAIN docs |-> serialize(docs[i])]

\* --------------------------------------------------------- list handlers
list_users(q) ==
    LET filter_dict == IF q = None \/ q.v = <<>> THEN NoFilter ELSE Regex("name", q.v)
    IN SerializeAll(get_documents(db.user, filter_dict))

ChatsOf(user_id) == get_documents(db.chat, Equals("participants", user_id))

\* list_chats without reverse=True.
list_chats_ascending(user_id) ==
    SerializeAll(sorted(ChatsOf(user_id), "updated_at", FALSE))

list_chats(user_id) ==
    SerializeAll(sorted(ChatsOf(user_id), "updated_at", TRUE))

MessagesOf(chat_id) == get_documents(db.message, Equals("chat_id", chat_id))

list_messages(chat_id) ==
    SerializeAll(sorted(MessagesOf(chat_id), "created_at", FALSE))

\* ------------------------------------------------------------- responses
\* An HTTP response: the handler, its status code and the records of its body
\* (one for a create, any number for a list, none for an error).
Response(op, status, body) == [op |-> op, status |-> status, body |-> body]

NoLocal == [payload |-> None, chat |-> None, msg_id |-> None]

Init ==
    /\ db = [user |-> <<>>, chat |-> <<>>, message |-> <<>>]
    /\ clock = 0
    /\ pc = [p \in Procs |-> "idle"]
    /\ local = [p \in Procs |-> NoLocal]
    /\ resp = Response("none", 0, <<>>)
    /\ returned = {}
    /\ updLog = <<>>
    /\ failed = {}

\* The query strings and reference strings a client may send.
UserQueries == {None, Str(<<>>), Str(<<"D", "A">>), Str(<<"B", "E">>)}

UserIds == {Ada, Bea, Eve}

Upper(s) == [i \in DOMAIN s |-> IF IsHex(s[i]) THEN HexUpper[HexVal(s[i]) + 1] ELSE s[i]]

TooShort == [i \in 1..(OidLen - 1) |-> "a"]
NotHex == [i \in 1..OidLen |-> "z"]

KnownChatIds == {StrOfOid(db.chat[i]["_id"]) : i \in DOMAIN db.chat}

ChatIds ==
    KnownChatIds \cup {Upper(c) : c \in KnownChatIds} \cup {StrOfOid(UnusedOid), TooShort, NotHex}

SenderIds == {Ada, Eve}

MessagePayloads ==
    {CreateMessage(c, u) : c \in KnownChatIds, u \in SenderIds}
        \cup {CreateMessage(c, Eve) : c \in ChatIds}

\* --------------------------------------------------------------- handlers
\* POST /api/users.  The insert and the read-back by the new identifier are one
\* step: no other request knows the identifier before the response is sent.
create_user(payload) ==
    LET user_id == created_id("user")
        db1 == create_document("user", payload)
        doc == find_one(db1.user, ObjectId(user_id))
    IN /\ Len(db.user) < MaxUsers
       /\ OidsLeft("user")
       /\ db' = db1
       /\ resp' = Response("create_user", 200, <<serialize(doc)>>)
       /\ UNCHANGED <<clock, pc, local, returned, updLog, failed>>

\* The size check without the exemption of group chats.
AnyChatTooSmall(payload) ==
    Len(payload.participants.v) < 2

\* POST /api/chats: the size check of line 128.
DirectChatTooSmall(payload) ==
    Len(payload.participants.v) < 2 /\ ~payload.is_group.v

\* The insert and the read-back are one step, as in create_user.
create_chat(payload) ==
    IF DirectChatTooSmall(payload)
    THEN /\ resp' = Response("create_chat", 400, <<>>)
         /\ UNCHANGED <<db, clock, pc, local, returned, updLog, failed>>
    ELSE LET chat_id == created_id("chat")
             db1 == create_document("chat", payload)
             doc == find_one(db1.chat, ObjectId(chat_id))
         IN /\ Len(db.chat) < MaxChats
            /\ OidsLeft("chat")
            /\ db' = db1
            /\ resp' = Response("create_chat", 200, <<serialize(doc)>>)
            /\ UNCHANGED <<clock, pc, local, returned, updLog, failed>>

\* The sender check left out.
ForbiddenNever(payload, chat) == FALSE

\* The sender check reduced to "the chat has participants".
ForbiddenIfEmpty(payload, chat) == chat.participants.v = <<>>

\* POST /api/messages, line 152: the sender is not among the chat's participants.
Forbidden(payload, chat) ==
    ~\E i \in DOMAIN chat.participants.v : chat.participants.v[i] = payload.sender_id.v

\* The sends that have passed the checks and not yet inserted their message.
InFlight == Cardinality({p \in Procs : pc[p] = "insert"})

\* Lines 148-153: the chat lookup and the sender check.  A request is served
\* by the first free slot (the slots are interchangeable), and is admitted past
\* the checks only while the store has room for its message.  ObjectId raises
\* InvalidId on a malformed chat_id; the handler catches nothing, so the
\* caller gets a server error.

SendLookup(p, payload) ==
    /\ pc[p] = "idle"
    /\ \A q \in 1..(p - 1) : pc[q] # "idle"
    /\ LET oid == ObjectId(payload.chat_id.v)
           chat == find_one(db.chat, oid)
       IN IF oid = InvalidId
          THEN /\ resp' = Response("send_message", 500, <<>>)
               /\ UNCHANGED <<pc, local>>
          ELSE IF IsFalsy(chat)
          THEN /\ resp' = Response("send_message", 404, <<>>)
               /\ UNCHANGED <<pc, local>>
          ELSE IF Forbidden(payload, chat)
          THEN /\ resp' = Response("send_message", 403, <<>>)
               /\ UNCHANGED <<pc, local>>
          ELSE /\ Len(db.message) + InFlight < MaxMsgs
               /\ pc' = [pc EXCEPT ![p] = "insert"]
               /\ local' = [local EXCEPT ![p] = [payload |-> payload, chat |-> chat, msg_id |-> None]]
               /\ UNCHANGED resp
    /\ UNCHANGED <<db, clock, returned, updLog, failed>>

\* line 155: the message insert (the store stamps and inserts in one step).
SendInsert(p) ==
    /\ pc[p] = "insert"
    /\ OidsLeft("message")
    /\ db' = create_document("message", local[p].payload)
    /\ local' = [local EXCEPT ![p].msg_id = Str(created_id("message"))]
    /\ pc' = [pc EXCEPT ![p] = "update"]
    /\ UNCHANGED <<clock, resp, returned, updLog, failed>>

\* The timestamp read from the chat found at the lookup instead of the message.
ChatCreatedAt(p) == local[p].chat["created_at"]

\* line 157: the new message is read back for its created_at, which the
\* chat's updated_at takes.
NewUpdatedAt(p) ==
    find_one(db.message, ObjectId(local[p].msg_id.v))["created_at"]

SendUpdate(p) ==
    /\ pc[p] = "update"
    /\ db' = [db EXCEPT !.chat = update_one(@, local[p].chat["_id"], "updated_at", NewUpdatedAt(p))]
    /\ updLog' = Append(updLog, ObjectId(local[p].msg_id.v))
    /\ pc' = [pc EXCEPT ![p] = "return"]
    /\ UNCHANGED <<clock, local, resp, returned, failed>>

\* lines 159-160: the message is read back and returned.
SendReturn(p) ==
    /\ pc[p] = "return"
    /\ resp' = Response("send_message", 200,
                        <<serialize(find_one(db.message, ObjectId(local[p].msg_id.v)))>>)
    /\ returned' = returned \cup {ObjectId(local[p].msg_id.v)}
    /\ pc' = [pc EXCEPT ![p] = "idle"]
    /\ local' = [local EXCEPT ![p] = NoLocal]
    /\ UNCHANGED <<db, clock, updLog, failed>>

\* A send_message that compensates: the failed chat update removes the message.
SendUpdateFailsRollback(p) ==
    /\ pc[p] = "update"
    /\ db' = [db EXCEPT !.message =
                SelectSeq(@, LAMBDA d : d["_id"] # ObjectId(local[p].msg_id.v))]
    /\ resp' = Response("send_message", 500, <<>>)
    /\ failed' = failed \cup {ObjectId(local[p].msg_id.v)}
    /\ pc' = [pc EXCEPT ![p] = "idle"]
    /\ local' = [local EXCEPT ![p] = NoLocal]
    /\ UNCHANGED <<clock, returned, updLog>>

\* line 157 when the store raises: the exception leaves send_message, which
\* catches nothing, and the caller gets a server error.
SendUpdateFails(p) ==
    /\ pc[p] = "update"
    /\ resp' = Response("send_message", 500, <<>>)
    /\ failed' = failed \cup {ObjectId(local[p].msg_id.v)}
    /\ pc' = [pc EXCEPT ![p] = "idle"]
    /\ local' = [local EXCEPT ![p] = NoLocal]
    /\ UNCHANGED <<db, clock, returned, updLog>>

\* Time passes.
Tick ==
    /\ clock < MaxClock
    /\ clock' = clock + 1
    /\ UNCHANGED <<db, pc, local, resp, returned, updLog, failed>>

Next ==
    \/ Tick
    \/ \E payload \in UserPayloads : create_user(payload)
    \/ \E payload \in ChatPayloads : create_chat(payload)
    \/ \E p \in Procs, payload \in MessagePayloads : SendLookup(p, payload)
    \/ \E p \in Procs : SendInsert(p)
    \/ \E p \in Procs : SendUpdate(p)
    \/ \E p \in Procs : SendReturn(p)

Spec == Init /\ [][Next]_vars

\* The same program over a store whose chat update may raise.
NextFault == Next \/ \E p \in Procs : SendUpdateFails(p)

SpecFault == Init /\ [][NextFault]_vars

\* ------------------------------------------------- vocabulary of the claims
Msg(oid) == find_one(db.message, oid)

\* The chat a stored message refers to (None when there is none).
ChatOfMsg(m) ==
    IF ObjectId(m.chat_id.v) = InvalidId THEN None
    ELSE find_one(db.chat, ObjectId(m.chat_id.v))

InChat(m, c) == ObjectId(m.chat_id.v) = c["_id"]

Elems(seq) == {seq[i] : i \in DOMAIN seq}

\* The record of a listing that stands for the document with identifier oid.
RecordsFor(listing, oid) == {r \in Elems(listing) : r.id = Str(StrOfOid(oid))}

\* Where a message's chat update stands in the order of the applied updates.
Pos(oid) == CHOOSE i \in DOMAIN updLog : updLog[i] = oid

Index(oid) == CHOOSE i \in DOMAIN db.message : db.message[i]["_id"] = oid

\* The chat update of message m was overtaken: a message of the same chat with
\* an earlier created_at had its update applied later, and the chat carries
\* that earlier timestamp.
Overtaken(m, c) ==
    \E e \in Elems(db.message) :
        /\ InChat(e, c)
        /\ e.created_at.v < m.created_at.v
        /\ e["_id"] \in Elems(updLog)
        /\ Pos(e["_id"]) > Pos(m["_id"])
        /\ c.updated_at = e.created_at

Listed(m, c, fresh(_, _)) ==
    /\ RecordsFor(list_messages(m.chat_id.v), m["_id"]) # {}
    /\ \A u \in Elems(c.participants.v) :
        /\ RecordsFor(list_chats(u), c["_id"]) # {}
        /\ \A r \in RecordsFor(list_chats(u), c["_id"]) : fresh(r, m)

\* C1 as stated: after a send_message call has returned, list_messages for its
\* chat_id includes the message and list_chats for every participant shows the
\* chat with updated_at no earlier than the message's created_at, whatever the
\* interleaving.
C1_AsStated ==
    \A oid \in returned :
        Listed(Msg(oid), ChatOfMsg(Msg(oid)), LAMBDA r, m : r.updated_at.v >= m.created_at.v)

\* C1 amended: after a send_message call has returned, list_messages for its
\* chat_id includes the message and list_chats for every participant shows the
\* chat; its updated_at is no earlier than the message's created_at unless a
\* send to the same chat whose message has an earlier created_at applied its
\* chat update later, and then updated_at is that earlier created_at.
C1_SendVisible ==
    \A oid \in returned :
        /\ oid \in Elems(updLog)
        /\ Listed(Msg(oid), ChatOfMsg(Msg(oid)),
                  LAMBDA r, m : \/ r.updated_at.v >= m.created_at.v
                                \/ Overtaken(m, ChatOfMsg(m)))

C1_Witness ==
    \E oid \in returned, p \in Procs :
        /\ pc[p] = "return"
        /\ local[p].chat["_id"] = ChatOfMsg(Msg(oid))["_id"]
        /\ Len(ChatOfMsg(Msg(oid)).participants.v) = 2

\* No chat has the identifier that chat_id parses to.
MatchesNoChat(chat_id) ==
    \A c \in Elems(db.chat) : ObjectId(chat_id) # c["_id"]

\* C2 as stated: send_message with a chat_id that matches no existing chat is
\* answered 404 and changes neither the messages nor any chat.
C2_AsStated ==
    [][\A p \in Procs, payload \in MessagePayloads :
        (SendLookup(p, payload) /\ MatchesNoChat(payload.chat_id.v))
            => (resp'.status = 404 /\ db' = db /\ pc'[p] = "idle")]_vars

\* C3: send_message to an existing chat by a sender_id that is not among its
\* participants is answered 403, and changes neither the messages nor the chat.
C3_ForbiddenSender ==
    [][\A p \in Procs, payload \in MessagePayloads :
        (/\ SendLookup(p, payload)
         /\ ~MatchesNoChat(payload.chat_id.v)
         /\ \A c \in Elems(db.chat) :
                ObjectId(payload.chat_id.v) = c["_id"]
                    => payload.sender_id.v \notin Elems(c.participants.v))
            => (/\ resp' = Response("send_message", 403, <<>>)
                /\ db' = db
                /\ pc'[p] = "idle")]_vars

C3_Witness ==
    /\ resp = Response("send_message", 403, <<>>)
    /\ db.chat # <<>>
    /\ db.message # <<>>

\* C4: create_chat with is_group false and fewer than 2 participants is answered
\* 400 and creates no chat; with is_group true it succeeds for any non-empty
\* participants, a single one included.
C4_CreateChat ==
    [][\A payload \in ChatPayloads :
        create_chat(payload) =>
            /\ (~payload.is_group.v /\ Len(payload.participants.v) < 2)
                    => (resp' = Response("create_chat", 400, <<>>) /\ db' = db)
            /\ (payload.is_group.v /\ Len(payload.participants.v) >= 1)
                    => /\ resp'.status = 200
                       /\ Len(db'.chat) = Len(db.chat) + 1
                       /\ SubSeq(db'.chat, 1, Len(db.chat)) = db.chat
                       /\ db'.chat[Len(db'.chat)].participants = payload.participants
                       /\ db'.chat[Len(db'.chat)].is_group = payload.is_group]_vars

C4_Witness ==
    /\ resp = Response("create_chat", 400, <<>>)
    /\ \E c \in Elems(db.chat) : c.is_group.v /\ Len(c.participants.v) = 1

Ascending(listing, key) ==
    \A i, j \in DOMAIN listing : i < j => listing[i][key].v <= listing[j][key].v

Descending(listing, key) ==
    \A i, j \in DOMAIN listing : i < j => listing[i][key].v >= listing[j][key].v

\* C5: list_messages returns a chat's messages in non-decreasing created_at
\* order and list_chats returns a user's chats in non-increasing updated_at
\* order, and each returns exactly the documents that match.
C5_Ordered ==
    /\ \A chat_id \in ChatIds :
        /\ Ascending(list_messages(chat_id), "created_at")
        /\ Len(list_messages(chat_id)) = Len(MessagesOf(chat_id))
        /\ \A m \in Elems(MessagesOf(chat_id)) :
                RecordsFor(list_messages(chat_id), m["_id"]) # {}
    /\ \A user_id \in UserIds :
        /\ Descending(list_chats(user_id), "updated_at")
        /\ Len(list_chats(user_id)) = Len(ChatsOf(user_id))
        /\ \A c \in Elems(ChatsOf(user_id)) :
                RecordsFor(list_chats(user_id), c["_id"]) # {}

\* Two chats of one user that the store holds in the opposite order.
C5_Witness ==
    /\ Len(ChatsOf(Ada)) = 2
    /\ ChatsOf(Ada)[1].updated_at.v < ChatsOf(Ada)[2].updated_at.v
    /\ \E chat_id \in ChatIds :
        /\ Len(list_messages(chat_id)) = 2
        /\ list_messages(chat_id)[1].created_at.v < list_messages(chat_id)[2].created_at.v

\* C6 as stated: a chat_id that is not a well-formed identifier is rejected
\* with a 4xx response and nothing is created or modified.
C6_AsStated ==
    [][\A p \in Procs, payload \in MessagePayloads :
        (SendLookup(p, payload) /\ ObjectId(payload.chat_id.v) = InvalidId)
            => (resp'.status \in 400..499 /\ db' = db)]_vars

Normalized(r, collection) ==
    /\ "id" \in DOMAIN r
    /\ "_id" \notin DOMAIN r
    /\ r.id.t = "str"
    /\ ObjectId(r.id.v) # InvalidId
    /\ LET doc == find_one(collection, ObjectId(r.id.v))
       IN /\ doc # None
          /\ r.id.v = StrOfOid(doc["_id"])
          /\ DOMAIN r = ((DOMAIN doc) \ {"_id"}) \cup {"id"}
          /\ \A k \in (DOMAIN doc) \ {"_id"} : r[k] = doc[k]

Collection(op) ==
    CASE op = "create_user" -> "user"
      [] op = "create_chat" -> "chat"
      [] op = "send_message" -> "message"

ListingsNormalized ==
    /\ \A q \in UserQueries : \A r \in Elems(list_users(q)) : Normalized(r, db.user)
    /\ \A u \in UserIds : \A r \in Elems(list_chats(u)) : Normalized(r, db.chat)
    /\ \A c \in ChatIds : \A r \in Elems(list_messages(c)) : Normalized(r, db.message)
    /\ Len(list_users(None)) = Len(db.user)

CreatedNormalized ==
    (resp' # resp /\ resp'.status = 200) =>
        /\ Len(resp'.body) = 1
        /\ Normalized(resp'.body[1], db'[Collection(resp'.op)])

\* C7: every record a list or create endpoint returns has a string id that is
\* the string form of a stored document's identifier, has no _id field, and
\* carries every other field of that document unchanged.
C7_Normalized == []ListingsNormalized /\ [][CreatedNormalized]_vars

C7_Witness ==
    /\ resp.op = "create_user" /\ resp.status = 200
    /\ Len(list_users(Str(<<"D", "A">>))) = 1
    /\ Len(list_users(Str(<<"B", "E">>))) = 0
    /\ Len(list_chats(Ada)) = 2
    /\ \E c \in ChatIds : Len(list_messages(c)) = 2

Quiet(c) == \A p \in Procs : pc[p] # "idle" => local[p].chat["_id"] # c["_id"]

Stale(c) == \E m \in Elems(db.message) : InChat(m, c) /\ c.updated_at.v < m.created_at.v

Reversed(c) ==
    \E e, l \in {m \in Elems(db.message) : InChat(m, c)} :
        /\ {e["_id"], l["_id"]} \subseteq returned
        /\ Index(e["_id"]) < Index(l["_id"])
        /\ Pos(l["_id"]) < Pos(e["_id"])
        /\ c.updated_at = e.created_at
        /\ e.created_at.v < l.created_at.v
        /\ \A m \in Elems(db.message) : InChat(m, c) => m.created_at.v <= l.created_at.v

\* C8: once the sends to a chat have completed, the chat's updated_at is earlier
\* than the created_at of one of its messages only if two sends ran
\* concurrently and their chat updates were applied in the opposite order to
\* their inserts: updated_at is then the earlier message's created_at, strictly
\* less than the latest message's.
C8_StaleByReversal ==
    \A c \in Elems(db.chat) : (Quiet(c) /\ Stale(c)) => Reversed(c)

C8_Witness ==
    /\ \A p \in Procs : pc[p] = "idle"
    /\ \E c \in Elems(db.chat) :
        /\ Stale(c)
        /\ Reversed(c)
        /\ Cardinality({m \in Elems(db.message) : InChat(m, c)}) = 2

FailedStay ==
    \A oid \in failed :
        /\ Msg(oid) # None
        /\ RecordsFor(list_messages(Msg(oid).chat_id.v), oid) # {}

FailureLeavesStore ==
    \A p \in Procs :
        SendUpdateFails(p) =>
            /\ Msg(ObjectId(local[p].msg_id.v)) # None
            /\ db'.message = db.message
            /\ db'.chat = db.chat
            /\ resp'.status \in 500..599

\* C9: when the chat update fails after the insert, the caller gets an error,
\* the chat keeps its updated_at, and the message stays in the store and in
\* list_messages from then on: nothing compensates.
C9_NoCompensation == []FailedStay /\ [][FailureLeavesStore]_vars

C9_Witness ==
    \E oid \in failed :
        /\ ChatOfMsg(Msg(oid)).updated_at.v < Msg(oid).created_at.v
        /\ resp = Response("send_message", 500, <<>>)
        /\ \A p \in Procs : pc[p] = "idle"

MessagesRefer ==
    \A m \in Elems(db.message) :
        /\ ChatOfMsg(m) # None
        /\ m.sender_id.v \in Elems(ChatOfMsg(m).participants.v)

ChatsKept ==
    /\ Len(db'.chat) >= Len(db.chat)
    /\ \A i \in DOMAIN db.chat :
        /\ db'.chat[i]["_id"] = db.chat[i]["_id"]
        /\ db'.chat[i].participants = db.chat[i].participants

\* C10: every stored message refers to an existing chat and was sent by one of
\* its participants, and no step removes a chat or changes its participants.
C10_References == []MessagesRefer /\ [][ChatsKept]_vars

C10_Witness ==
    /\ Len(db.message) = 2
    /\ ChatOfMsg(db.message[1])["_id"] # ChatOfMsg(db.message[2])["_id"]
    /\ \E p \in Procs : pc[p] = "update"

====
